---- MODULE Spec2Model ----
(***************************************************************************)
(* State-machine model of the DashboardCharts React component              *)
(* (src/src/components/DashboardCharts.jsx, lines 12-357; the              *)
(* industry-only variant of lines 371-602 is the same machine with the     *)
(* grouping dimension fixed to Industry).                                  *)
(*                                                                         *)
(* A Date is an instant with millisecond resolution, written              *)
(* [day, ms]: the day number since 2026-01-01 on the Gregorian calendar    *)
(* and the milliseconds since 00:00 of that day (the local time zone is    *)
(* UTC).  The component reads the clock (new Date()) once in               *)
(* createMockData (`mountTime`) and once in every render (`now`, the       *)
(* value read by the latest render).  addMonths follows                    *)
(* Date.prototype.setMonth: it keeps the day of the month and the time of  *)
(* day, and overflows into the next month when the target month is         *)
(* shorter.                                                                *)
(* Math.random() is modelled as an integer k in 0..RandMax-1 standing      *)
(* for the real k/RandMax.                                                 *)
(***************************************************************************)
EXTENDS Integers, Sequences, FiniteSets, TLC

\* ---------------------------------------------------------------- bounds
\* Number of records createMockData produces (220 in the source).
NumRecords == 4
\* Number of Math.random streams Init chooses from.
NumSeeds == 3
\* Resolution of the Math.random model.
RandMax == 60

\* --------------------------------------------------------------- calendar
IsLeapYear(y) == (y % 4 = 0 /\ y % 100 # 0) \/ y % 400 = 0

DaysInMonth(y, m) ==
    CASE m \in {1, 3, 5, 7, 8, 10, 12} -> 31
      [] m \in {4, 6, 9, 11} -> 30
      [] OTHER -> IF IsLeapYear(y) THEN 29 ELSE 28

\* Months are numbered from 0 = January 2026.  The day numbers of the
\* first days of months 0..n, as a sequence.
RECURSIVE MonthStartsUpTo(_)
MonthStartsUpTo(n) ==
    IF n = 0 THEN <<0>>
    ELSE LET s == MonthStartsUpTo(n - 1)
         IN Append(s, s[n] + DaysInMonth(2026 + ((n - 1) \div 12), ((n - 1) % 12) + 1))

\* January 2026 .. January 2030.
MonthStarts == MonthStartsUpTo(4 * 12)

\* The day number of the first day of month i.
MonthStart(i) == MonthStarts[i + 1]

\* The month a day falls in (a month has 28 to 31 days).
MonthOf(d) ==
    CHOOSE i \in (d \div 31)..(d \div 28) : MonthStart(i) <= d /\ d < MonthStart(i + 1)

\* The day number of the calendar date y-m-d.
Date(y, m, d) == MonthStart((y - 2026) * 12 + (m - 1)) + (d - 1)

MsPerDay == 24 * 60 * 60 * 1000

\* new Date(Date.UTC(y, m - 1, d, h, mi, s, ms)).
DateTime(y, m, d, h, mi, s, ms) ==
    [day |-> Date(y, m, d), ms |-> ((h * 60 + mi) * 60 + s) * 1000 + ms]

\* a >= b on Dates: the comparison of the two getTime() values.
NotBefore(a, b) == a.day > b.day \/ (a.day = b.day /\ a.ms >= b.ms)

\* a < b on Dates.
Before(a, b) == ~NotBefore(a, b)

\* to.getTime() - from.getTime() for from <= to, as whole days and
\* milliseconds.
elapsed(from, to) ==
    IF to.ms >= from.ms
    THEN [day |-> to.day - from.day, ms |-> to.ms - from.ms]
    ELSE [day |-> to.day - from.day - 1, ms |-> to.ms - from.ms + MsPerDay]

\* The whole milliseconds of (k / RandMax) * span, by long division of
\* k * span by RandMax over days, seconds and milliseconds.
scaled(span, k) ==
    LET days == k * span.day
        secs == (days % RandMax) * (24 * 60 * 60) + k * (span.ms \div 1000)
        msec == (secs % RandMax) * 1000 + k * (span.ms % 1000)
        rest == (secs \div RandMax) * 1000 + (msec \div RandMax)
    IN [day |-> (days \div RandMax) + (rest \div MsPerDay), ms |-> rest % MsPerDay]

\* new Date(t.getTime() + span).
plus(t, span) ==
    LET ms == t.ms + span.ms
    IN [day |-> t.day + span.day + (ms \div MsPerDay), ms |-> ms % MsPerDay]

\* The values new Date() may return at mount.
MountDates ==
    {DateTime(2027, 5, 29, 18, 30, 0, 0), DateTime(2027, 6, 1, 0, 0, 0, 0)}

\* The values new Date() may return to a render.
ClockReadings ==
    MountDates \cup {DateTime(2027, 5, 29, 18, 30, 10, 0),
                     DateTime(2027, 11, 30, 12, 0, 0, 0)}

\* ------------------------------------------------------------- constants
REGIONS == <<"EMEA", "APAC", "NA", "LATAM">>
INDUSTRIES == <<"Retail", "Manufacturing", "Accountants">>
PRODUCTS == <<"Core", "Sync", "Analytics", "AI">>
EXPERTS == <<"Ann", "Ben", "Chao", "Dee", "Evan">>
\* The four emoji of the source, by name.
CSAT_VALUES == <<"grinning", "smiling", "neutral", "frowning">>
STAGES == <<"Closed", "Active", "Proposal">>
GRANULARITIES == <<"month", "quarter", "year">>
XAXIS_TYPES == <<"Industry", "Region", "Product", "Expert", "CSAT">>

Range(s) == {s[i] : i \in 1..Len(s)}

\* JavaScript null (the initial and the cleared selection).
null == [isNull |-> TRUE]

VARIABLES stage, granularity, selected, xAxisType, isLoading, records,
          mountTime, timers, now, lastEvent

vars == <<stage, granularity, selected, xAxisType, isLoading, records,
          mountTime, timers, now, lastEvent>>

\* ---------------------------------------------------------------- helpers
\* The n-th value Math.random() returns in the session with stream `seed`.
random(seed, n) == (seed * 7 + n * 13 + seed * n * 11 + (n * n) * 3) % RandMax

\* arr[Math.floor(Math.random() * arr.length)], with Math.random() = k/RandMax.
randChoice(arr, k) == arr[((k * Len(arr)) \div RandMax) + 1]

\* d.setMonth(d.getMonth() + m): the first day of the target month plus
\* the day of the month of `date`, whatever the length of that month, at
\* the time of day of `date`.
addMonths(date, m) ==
    LET i == MonthOf(date.day)
    IN [day |-> MonthStart(i + m) + (date.day - MonthStart(i)), ms |-> date.ms]

\* createMockData: record i (0-based) uses Math.random calls 7i .. 7i+6, in
\* the order date, industry, region, stage, product, expert, csat.  The
\* date is start + Math.random() * (today - start) in milliseconds, the
\* fraction of a millisecond dropped by new Date(); toISOString and
\* new Date(r.date) keep the millisecond.
RECURSIVE mockLoop(_, _, _, _, _, _)
mockLoop(i, id, out, start, today, seed) ==
    IF ~(i < NumRecords) THEN out
    ELSE LET date == plus(start, scaled(elapsed(start, today), random(seed, 7 * i)))
             rec == [id |-> id,
                     project |-> id + 1,
                     industry |-> randChoice(INDUSTRIES, random(seed, 7 * i + 1)),
                     region |-> randChoice(REGIONS, random(seed, 7 * i + 2)),
                     stage |-> randChoice(STAGES, random(seed, 7 * i + 3)),
                     date |-> date,
                     product |-> randChoice(PRODUCTS, random(seed, 7 * i + 4)),
                     expert |-> randChoice(EXPERTS, random(seed, 7 * i + 5)),
                     csat |-> randChoice(CSAT_VALUES, random(seed, 7 * i + 6))]
         IN mockLoop(i + 1, id + 1, Append(out, rec), start, today, seed)

\* Mutant of createMockData: the records are spread over the widest
\* lookback window (12 months), whatever monthsBack says.
createMockData_YearBack(monthsBack, today, seed) ==
    mockLoop(0, 1, <<>>, addMonths(today, -12), today, seed)

\* `today` is the clock createMockData reads (line 337).
createMockData(monthsBack, today, seed) ==
    mockLoop(0, 1, <<>>, addMonths(today, -monthsBack), today, seed)

\* ------------------------------------------------------ derived (render)
timeWindowMonthsOf(g) == IF g = "month" THEN 3 ELSE IF g = "quarter" THEN 9 ELSE 12

timeWindowMonths == timeWindowMonthsOf(granularity)

cutoffAt(clock, g) == addMonths(clock, -timeWindowMonthsOf(g))

cutoff == cutoffAt(now, granularity)

filterRecords(recs, stg, cut) ==
    SelectSeq(recs, LAMBDA r : r.stage = stg /\ NotBefore(r.date, cut))

filtered == filterRecords(records, stage, cutoff)

\* Mutant of getXAxisValues: the Expert case is missing and falls to the
\* default.
getXAxisValuesOf_NoExpertCase(x) ==
    CASE x = "Industry" -> INDUSTRIES
      [] x = "Region" -> REGIONS
      [] x = "Product" -> PRODUCTS
      [] x = "CSAT" -> CSAT_VALUES
      [] OTHER -> INDUSTRIES

getXAxisValuesOf(x) ==
    CASE x = "Industry" -> INDUSTRIES
      [] x = "Region" -> REGIONS
      [] x = "Product" -> PRODUCTS
      [] x = "Expert" -> EXPERTS
      [] x = "CSAT" -> CSAT_VALUES
      [] OTHER -> INDUSTRIES

getXAxisValues == getXAxisValuesOf(xAxisType)

\* Mutant of cellMatches: the Region case tests the grouping value only.
cellMatches_RegionIgnoresSeries(r, x, value, reg) ==
    CASE x = "Industry" -> r.industry = value /\ r.region = reg
      [] x = "Region" -> r.region = value
      [] x = "Product" -> r.product = value /\ r.region = reg
      [] x = "Expert" -> r.expert = value /\ r.region = reg
      [] x = "CSAT" -> r.csat = value /\ r.region = reg
      [] OTHER -> FALSE

\* The switch of chartData's filter callback (lines 97-110).
cellMatches(r, x, value, reg) ==
    CASE x = "Industry" -> r.industry = value /\ r.region = reg
      [] x = "Region" -> r.region = value /\ r.region = reg
      [] x = "Product" -> r.product = value /\ r.region = reg
      [] x = "Expert" -> r.expert = value /\ r.region = reg
      [] x = "CSAT" -> r.csat = value /\ r.region = reg
      [] OTHER -> FALSE

\* One chart row: the key named by the grouping dimension holds the value,
\* each region key holds a count.
chartRow(flt, x, value) ==
    [k \in {x} \cup Range(REGIONS) |->
        IF k = x THEN value
        ELSE Len(SelectSeq(flt, LAMBDA r : cellMatches(r, x, value, k)))]

aggregate(flt, x) ==
    [i \in 1..Len(getXAxisValuesOf(x)) |-> chartRow(flt, x, getXAxisValuesOf(x)[i])]

chartData == aggregate(filtered, xAxisType)

\* Mutant of matchesXAxis: the drill-down matches on the region only.
matchesXAxis_AnyValue(r, x, sel) == x \in Range(XAXIS_TYPES)

\* The switch of tableRows' filter callback (lines 120-135).
matchesXAxis(r, x, sel) ==
    CASE x = "Industry" -> r.industry = sel.xAxisValue
      [] x = "Region" -> r.region = sel.xAxisValue
      [] x = "Product" -> r.product = sel.xAxisValue
      [] x = "Expert" -> r.expert = sel.xAxisValue
      [] x = "CSAT" -> r.csat = sel.xAxisValue
      [] OTHER -> FALSE

\* Mutant of drillDown: the table is drawn from all records, not from the
\* filtered ones.
drillDown_FromAllRecords(flt, x, sel) ==
    IF sel = null THEN <<>>
    ELSE SelectSeq(records, LAMBDA r : matchesXAxis(r, x, sel) /\ r.region = sel.region)

drillDown(flt, x, sel) ==
    IF sel = null THEN <<>>
    ELSE SelectSeq(flt, LAMBDA r : matchesXAxis(r, x, sel) /\ r.region = sel.region)

tableRows == drillDown(filtered, xAxisType, selected)

\* chartData of the industry-only variant (lines 400-408).
chartDataIndustryOnly(flt) ==
    [i \in 1..Len(INDUSTRIES) |->
        [k \in {"industry"} \cup Range(REGIONS) |->
            IF k = "industry" THEN INDUSTRIES[i]
            ELSE Len(SelectSeq(flt, LAMBDA r : r.industry = INDUSTRIES[i] /\ r.region = k))]]

\* What the Details panel shows (lines 228-279).
detailsPanel == IF selected # null THEN "table" ELSE "No selection yet."

\* ------------------------------------------------------------------ state
\* lastEvent records the latest event handled: its kind, the bar index and
\* key (stage, granularity, dimension or region) it carried, and whether
\* there was a selection when it arrived.
Event(op, idx, key) ==
    [op |-> op, idx |-> idx, key |-> key, hadSelection |-> (selected # null)]

\* A render reads the clock again: it has not gone back.  (The render of
\* the timer continuation comes 500 ms after the setTimeout call of the
\* handler, which reads no clock; the render after the handler may itself
\* come that late.)
Render == now' \in {t \in ClockReadings : NotBefore(t, now)}

Init ==
    /\ stage = "Active"
    /\ granularity = "month"
    /\ selected = null
    /\ xAxisType = "Industry"
    /\ isLoading = FALSE
    /\ mountTime \in MountDates
    /\ \E seed \in 0..(NumSeeds - 1) :
          records = createMockData(timeWindowMonthsOf("month"), mountTime, seed)
    /\ timers = 0
    /\ now \in {t \in ClockReadings : NotBefore(t, mountTime)}
    /\ lastEvent = [op |-> "mount", idx |-> -1, key |-> "", hadSelection |-> FALSE]

\* Stage segmented control: onChange={setStage}.  Setting the value the
\* state already has renders nothing.
setStage(s) ==
    /\ stage' = s
    /\ IF s = stage THEN now' = now ELSE Render
    /\ lastEvent' = Event("setStage", -1, s)
    /\ UNCHANGED <<granularity, selected, xAxisType, isLoading, records, mountTime, timers>>

\* Mutant of setGranularity: the dataset is generated again for the new
\* lookback window.
setGranularity_Regenerates(g) ==
    /\ granularity' = g
    /\ IF g = granularity THEN now' = now ELSE Render
    /\ lastEvent' = Event("setGranularity", -1, g)
    /\ \E seed \in 0..(NumSeeds - 1) :
          records' = createMockData(timeWindowMonthsOf(g), now', seed)
    /\ UNCHANGED <<stage, selected, xAxisType, isLoading, mountTime, timers>>

\* Time segmented control: onChange={setGranularity}.
setGranularity(g) ==
    /\ granularity' = g
    /\ IF g = granularity THEN now' = now ELSE Render
    /\ lastEvent' = Event("setGranularity", -1, g)
    /\ UNCHANGED <<stage, selected, xAxisType, isLoading, records, mountTime, timers>>

\* Mutant of handleXAxisChange: the select is not disabled while loading.
handleXAxisChange_NotDisabled(newXAxisType) ==
    /\ timers < 3
    /\ newXAxisType # xAxisType
    /\ isLoading' = TRUE
    /\ xAxisType' = newXAxisType
    /\ selected' = null
    /\ timers' = timers + 1
    /\ Render
    /\ lastEvent' = Event("handleXAxisChange", -1, newXAxisType)
    /\ UNCHANGED <<stage, granularity, records, mountTime>>

\* Mutant of handleXAxisChange: setSelected(null) is missing.
handleXAxisChange_KeepsSelection(newXAxisType) ==
    /\ ~isLoading
    /\ newXAxisType # xAxisType
    /\ isLoading' = TRUE
    /\ xAxisType' = newXAxisType
    /\ timers' = timers + 1
    /\ Render
    /\ lastEvent' = Event("handleXAxisChange", -1, newXAxisType)
    /\ UNCHANGED <<stage, granularity, selected, records, mountTime>>

\* handleXAxisChange up to its await: the select is disabled while
\* isLoading, and its change event carries a value other than the current.
handleXAxisChange(newXAxisType) ==
    /\ ~isLoading
    /\ newXAxisType # xAxisType
    /\ isLoading' = TRUE
    /\ xAxisType' = newXAxisType
    /\ selected' = null
    /\ timers' = timers + 1
    /\ Render
    /\ lastEvent' = Event("handleXAxisChange", -1, newXAxisType)
    /\ UNCHANGED <<stage, granularity, records, mountTime>>

\* Mutant of the timer continuation: setIsLoading(false) is missing.
timerFired_KeepsLoading ==
    /\ timers > 0
    /\ timers' = timers - 1
    /\ Render
    /\ lastEvent' = Event("timerFired", -1, "")
    /\ UNCHANGED <<stage, granularity, selected, xAxisType, isLoading, records, mountTime>>

\* Mutant of the timer continuation: it clears the selection again.
timerFired_ClearsSelection ==
    /\ timers > 0
    /\ timers' = timers - 1
    /\ isLoading' = FALSE
    /\ selected' = null
    /\ Render
    /\ lastEvent' = Event("timerFired", -1, "")
    /\ UNCHANGED <<stage, granularity, xAxisType, records, mountTime>>

\* The continuation of handleXAxisChange after the 500 ms timer.
timerFired ==
    /\ timers > 0
    /\ timers' = timers - 1
    /\ isLoading' = FALSE
    /\ Render
    /\ lastEvent' = Event("timerFired", -1, "")
    /\ UNCHANGED <<stage, granularity, selected, xAxisType, records, mountTime>>

\* Mutant of the Bar onClick: the row index is off by one.
barClick_NextRow(idx, reg) ==
    /\ idx \in 0..(Len(getXAxisValues) - 1)
    /\ selected' = [xAxisValue |-> IF idx + 2 <= Len(getXAxisValues)
                                   THEN chartData[idx + 2][xAxisType]
                                   ELSE "undefined",
                    region |-> reg]
    /\ Render
    /\ lastEvent' = Event("barClick", idx, reg)
    /\ UNCHANGED <<stage, granularity, xAxisType, isLoading, records, mountTime, timers>>

\* onClick of the Bar of region `reg`, on the segment at bar index idx.
barClick(idx, reg) ==
    /\ idx \in 0..(Len(getXAxisValues) - 1)
    /\ selected' = [xAxisValue |-> chartData[idx + 1][xAxisType], region |-> reg]
    /\ Render
    /\ lastEvent' = Event("barClick", idx, reg)
    /\ UNCHANGED <<stage, granularity, xAxisType, isLoading, records, mountTime, timers>>

\* Mutant of the clear button: it resets the stage filter as well.
clearSelection_ResetsStage ==
    /\ selected # null
    /\ selected' = null
    /\ stage' = "Active"
    /\ Render
    /\ lastEvent' = Event("clearSelection", -1, "")
    /\ UNCHANGED <<granularity, xAxisType, isLoading, records, mountTime, timers>>

\* The "Clear selection" button, rendered only while there is a selection.
clearSelection ==
    /\ selected # null
    /\ selected' = null
    /\ Render
    /\ lastEvent' = Event("clearSelection", -1, "")
    /\ UNCHANGED <<stage, granularity, xAxisType, isLoading, records, mountTime, timers>>

Next ==
    \/ \E s \in Range(STAGES) : setStage(s)
    \/ \E g \in Range(GRANULARITIES) : setGranularity(g)
    \/ \E x \in Range(XAXIS_TYPES) : handleXAxisChange(x)
    \/ timerFired
    \/ \E idx \in 0..4, reg \in Range(REGIONS) : barClick(idx, reg)
    \/ clearSelection

Spec == Init /\ [][Next]_vars

\* The browser runs a timer that is due.
FairSpec == Spec /\ WF_vars(timerFired)

\* ----------------------------------------------------------------- claims
RECURSIVE SumOver(_, _)
SumOver(f, S) ==
    IF S = {} THEN 0
    ELSE LET k == CHOOSE k \in S : TRUE IN f[k] + SumOver(f, S \ {k})

\* Sum of the region columns of one chart row.
RowTotal(row) == SumOver(row, Range(REGIONS))

\* Sum of all region counts of all rows of a chart.
ChartTotal(chart) == SumOver([i \in DOMAIN chart |-> RowTotal(chart[i])], DOMAIN chart)

\* The field of a record that a grouping dimension names.
FieldOf(r, x) ==
    CASE x = "Industry" -> r.industry
      [] x = "Region" -> r.region
      [] x = "Product" -> r.product
      [] x = "Expert" -> r.expert
      [] x = "CSAT" -> r.csat

\* The (row, region) cells of the chart that count filtered record n.
CellsCounting(n) ==
    {c \in (1..Len(getXAxisValues)) \X Range(REGIONS) :
        cellMatches(filtered[n], xAxisType, getXAxisValues[c[1]], c[2])}

\* C1: in every reachable state (every stage, granularity and grouping
\* dimension occurs) the region counts of all chart rows sum to the number
\* of filtered records, every filtered record is counted in exactly one
\* (grouping value, region) cell, and the same sum holds for the chart of
\* the industry-only variant.
C1_ChartPartitionsFiltered ==
    /\ ChartTotal(chartData) = Len(filtered)
    /\ \A n \in 1..Len(filtered) : Cardinality(CellsCounting(n)) = 1
    /\ ChartTotal(chartDataIndustryOnly(filtered)) = Len(filtered)

C1_Witness ==
    /\ xAxisType = "Region"
    /\ granularity = "quarter"
    /\ Len(filtered) >= 2
    /\ Len(filtered) < Len(records)

\* C2: the table rows are filtered records, and each has the current stage,
\* a date not before the current cutoff, the selected grouping value in the
\* field the current grouping dimension names, and the selected region.
C2_TableRowsWithinFiltered ==
    \A n \in 1..Len(tableRows) :
        LET r == tableRows[n] IN
        /\ r \in Range(filtered)
        /\ r \in Range(records)
        /\ r.stage = stage
        /\ NotBefore(r.date, addMonths(now, -timeWindowMonths))
        /\ FieldOf(r, xAxisType) = selected.xAxisValue
        /\ r.region = selected.region

C2_Witness ==
    /\ Len(tableRows) >= 1
    /\ Len(tableRows) < Len(filtered)
    /\ xAxisType = "Product"
    /\ lastEvent.op = "timerFired"

\* C3: right after a grouping change there is no selection and the table
\* is empty, whatever was selected before and whichever dimension was
\* chosen.
C3_GroupingChangeClearsSelection ==
    lastEvent.op = "handleXAxisChange" =>
        /\ selected = null
        /\ tableRows = <<>>
        /\ xAxisType = lastEvent.key

C3_Witness ==
    /\ lastEvent.op = "handleXAxisChange"
    /\ lastEvent.hadSelection
    /\ xAxisType = "Expert"
    /\ selected = null

\* C4: a step of the clear-selection button starts with a selection, ends
\* with none, with an empty table and the "no selection" panel, and leaves
\* stage, granularity, grouping dimension and records as they were.
C4_ClearSelection ==
    [][(lastEvent'.op = "clearSelection" /\ lastEvent' # lastEvent) =>
          /\ selected # null
          /\ selected' = null
          /\ tableRows' = <<>>
          /\ detailsPanel' = "No selection yet."
          /\ UNCHANGED <<stage, granularity, xAxisType, records>>]_vars

C4_Witness ==
    /\ lastEvent.op = "clearSelection"
    /\ lastEvent.hadSelection
    /\ selected = null
    /\ stage = "Proposal"
    /\ granularity = "year"
    /\ xAxisType = "CSAT"

\* C5: right after a click on the segment of region R at bar index i the
\* selection is (the grouping value of chart row i, R), whether or not
\* there was a selection before.
C5_ClickSelectsSegment ==
    lastEvent.op = "barClick" =>
        /\ lastEvent.idx \in 0..(Len(getXAxisValues) - 1)
        /\ selected = [xAxisValue |-> getXAxisValues[lastEvent.idx + 1],
                       region |-> lastEvent.key]
        /\ selected.xAxisValue = chartData[lastEvent.idx + 1][xAxisType]

C5_Witness ==
    /\ lastEvent.op = "barClick"
    /\ lastEvent.hadSelection
    /\ lastEvent.idx = 4
    /\ lastEvent.key = "LATAM"
    /\ selected = [xAxisValue |-> "Evan", region |-> "LATAM"]

\* C6: a grouping change turns the loading flag on and adds a pending
\* timer; only the timer's own expiry removes a pending timer, and it turns
\* the loading flag off; so (timers that are due fire) every grouping
\* change is followed by a state with the loading flag off.
C6_LoadingEndsAfterGroupingChange ==
    /\ [][xAxisType' # xAxisType => (isLoading' /\ timers' = timers + 1)]_vars
    /\ [][timers' < timers => (lastEvent'.op = "timerFired" /\ ~isLoading')]_vars
    /\ (lastEvent.op = "handleXAxisChange") ~> (~isLoading)

C6_Witness ==
    /\ lastEvent.op = "timerFired"
    /\ ~isLoading
    /\ timers = 0
    /\ xAxisType = "Product"

\* C7 as stated: the timer-expiry step leaves stage, granularity, grouping
\* dimension, selection, records, chartData and tableRows unchanged.
C7_Original ==
    [][timers' < timers =>
          /\ UNCHANGED <<stage, granularity, xAxisType, selected, records>>
          /\ chartData' = chartData
          /\ tableRows' = tableRows]_vars

\* C7 amended: the timer-expiry step turns the loading flag off and leaves
\* stage, granularity, grouping dimension, selection and records unchanged;
\* chartData and tableRows after it are the derivation from that unchanged
\* state at the clock its render reads: unchanged if that render computes
\* the same cutoff, and otherwise with the records the moved cutoff lets in
\* or leaves out.
C7_TimerChangesOnlyLoading ==
    [][timers' < timers =>
          /\ ~isLoading'
          /\ UNCHANGED <<stage, granularity, xAxisType, selected, records>>
          /\ chartData' = aggregate(filterRecords(records, stage,
                                       cutoffAt(now', granularity)), xAxisType)
          /\ tableRows' = drillDown(filterRecords(records, stage,
                                       cutoffAt(now', granularity)), xAxisType, selected)
          /\ (cutoff' = cutoff => (chartData' = chartData /\ tableRows' = tableRows))]_vars

\* The timer has fired on the render of 1 June 00:00, mounted on 29 May
\* 18:30, with a selection made while loading: a record of the current
\* stage is in the chart that a render 10 s after mount leaves out.
C7_Witness ==
    /\ lastEvent.op = "timerFired"
    /\ selected # null
    /\ granularity = "month"
    /\ mountTime = DateTime(2027, 5, 29, 18, 30, 0, 0)
    /\ now = DateTime(2027, 6, 1, 0, 0, 0, 0)
    /\ \E n \in 1..Len(filtered) :
          Before(filtered[n].date,
                 cutoffAt(DateTime(2027, 5, 29, 18, 30, 10, 0), granularity))

\* C8: no step changes the record set.
C8_RecordsNeverChange ==
    [][records' = records]_vars

C8_Witness ==
    /\ lastEvent.op = "setGranularity"
    /\ granularity = "year"
    /\ Before(mountTime, now)
    /\ \E seed \in 0..(NumSeeds - 1) :
          records = createMockData(timeWindowMonthsOf("month"), mountTime, seed)

\* The enumerated values of each grouping dimension, as the spec lists them.
EnumeratedValues(x) ==
    CASE x = "Industry" -> <<"Retail", "Manufacturing", "Accountants">>
      [] x = "Region" -> <<"EMEA", "APAC", "NA", "LATAM">>
      [] x = "Product" -> <<"Core", "Sync", "Analytics", "AI">>
      [] x = "Expert" -> <<"Ann", "Ben", "Chao", "Dee", "Evan">>
      [] x = "CSAT" -> <<"grinning", "smiling", "neutral", "frowning">>

RowCount(x) ==
    CASE x = "Industry" -> 3
      [] x = "Region" -> 4
      [] x = "Product" -> 4
      [] x = "Expert" -> 5
      [] x = "CSAT" -> 4

\* C9: chartData has one row per enumerated value of the grouping
\* dimension, in enumeration order (3, 4, 4, 5, 4 rows), each row with a
\* natural-number count for each of the four regions; with stage Active,
\* granularity month and grouping Region it has 4 rows whose counts sum to
\* the number of Active records dated within the 3-month window.
C9_OneRowPerValue ==
    /\ DOMAIN chartData = 1..RowCount(xAxisType)
    /\ Len(EnumeratedValues(xAxisType)) = RowCount(xAxisType)
    /\ \A i \in DOMAIN chartData :
          /\ DOMAIN chartData[i] = {xAxisType, "EMEA", "APAC", "NA", "LATAM"}
          /\ chartData[i][xAxisType] = EnumeratedValues(xAxisType)[i]
          /\ \A reg \in {"EMEA", "APAC", "NA", "LATAM"} : chartData[i][reg] \in Nat
    /\ (stage = "Active" /\ granularity = "month" /\ xAxisType = "Region") =>
          /\ Len(chartData) = 4
          /\ ChartTotal(chartData) =
                Cardinality({n \in 1..Len(records) :
                                /\ records[n].stage = "Active"
                                /\ NotBefore(records[n].date, addMonths(now, -3))})

C9_Witness ==
    /\ stage = "Active"
    /\ granularity = "month"
    /\ xAxisType = "Region"
    /\ ChartTotal(chartData) >= 2

\* The EMEA segment of the "Retail" bar was the last thing clicked, under
\* grouping Industry.
RetailEmeaClicked ==
    /\ lastEvent.op = "barClick"
    /\ xAxisType = "Industry"
    /\ chartData[lastEvent.idx + 1]["Industry"] = "Retail"
    /\ lastEvent.key = "EMEA"

TableShowsOnlyRetailEmea ==
    \A n \in 1..Len(tableRows) :
        /\ tableRows[n].industry = "Retail"
        /\ tableRows[n].region = "EMEA"
        /\ tableRows[n].stage = stage

\* C10 as stated: the click sets selection = {value: "Retretail", region:
\* "EMEA"}.
C10_Original ==
    RetailEmeaClicked =>
        /\ selected = [value |-> "Retretail", region |-> "EMEA"]
        /\ TableShowsOnlyRetailEmea

\* C10 amended: under grouping Industry, clicking the EMEA segment of the
\* "Retail" bar sets selection = {xAxisValue: "Retail", region: "EMEA"}, and
\* the table then shows only records with industry "Retail", region "EMEA"
\* and the current stage.
C10_RetailEmeaClick ==
    RetailEmeaClicked =>
        /\ selected = [xAxisValue |-> "Retail", region |-> "EMEA"]
        /\ TableShowsOnlyRetailEmea

C10_Witness ==
    /\ RetailEmeaClicked
    /\ Len(tableRows) >= 1
    /\ Len(tableRows) < Len(filtered)

\* C11: whenever there is a selection, its value is an enumerated value of
\* the current grouping dimension and its region is one of the four
\* regions, and the table has as many rows as the chart counts in the row
\* of that value and the column of that region.
C11_SelectionMatchesChartCell ==
    selected # null =>
        /\ selected.xAxisValue \in Range(EnumeratedValues(xAxisType))
        /\ selected.region \in {"EMEA", "APAC", "NA", "LATAM"}
        /\ \E i \in DOMAIN chartData :
              /\ chartData[i][xAxisType] = selected.xAxisValue
              /\ Len(tableRows) = chartData[i][selected.region]

\* A selection kept across a granularity change, with rows in the table.
C11_Witness ==
    /\ selected # null
    /\ lastEvent.op = "setGranularity"
    /\ lastEvent.hadSelection
    /\ lastEvent.key # "month"
    /\ xAxisType = "CSAT"
    /\ Len(tableRows) >= 1

\* C12: at most one timer is pending, the loading flag is on exactly when
\* one is, and a grouping change starts only with no timer pending.
C12_OneTimerWhileLoading ==
    /\ timers \in {0, 1}
    /\ isLoading <=> (timers = 1)
    /\ (lastEvent.op = "handleXAxisChange") => (timers = 1 /\ isLoading)
    /\ (lastEvent.op = "timerFired") => (timers = 0 /\ ~isLoading)

\* Another event was handled while the timer was pending.
C12_Witness ==
    /\ isLoading
    /\ timers = 1
    /\ lastEvent.op = "barClick"
    /\ xAxisType = "Expert"

\* The filtered set the current state would have under granularity g.
FilteredUnder(g) == filterRecords(records, stage, cutoffAt(now, g))

\* All records of the current stage.
RecordsOfStage == SelectSeq(records, LAMBDA r : r.stage = stage)

\* The start of the window the dataset was generated for (line 338).
DatasetStart == addMonths(mountTime, -timeWindowMonthsOf("month"))

\* A render at `clock` has a quarter cutoff no later than the dataset's start.
QuarterCoversDataset(clock) == NotBefore(DatasetStart, cutoffAt(clock, "quarter"))

MonthWithinQuarter ==
    Range(FilteredUnder("month")) \subseteq Range(FilteredUnder("quarter"))

\* The dataset-versus-window facts of C13 in one state.
QuarterEqualsYear ==
    /\ FilteredUnder("quarter") = FilteredUnder("year")
    /\ FilteredUnder("quarter") = RecordsOfStage
    /\ MonthWithinQuarter

DatedWithinMountWindow ==
    \A n \in 1..Len(records) :
        /\ NotBefore(records[n].date, addMonths(mountTime, -3))
        /\ NotBefore(mountTime, records[n].date)

\* A step that switches between quarter and year.
QuarterYearSwitch ==
    /\ granularity \in {"quarter", "year"}
    /\ granularity' \in {"quarter", "year"}
    /\ granularity' # granularity
    /\ UNCHANGED <<stage, xAxisType, selected>>

\* C13 as stated: in every reachable state the records are dated within
\* the 3 months before mount and the filtered set under quarter equals the
\* one under year, both being all records of the current stage, with the
\* one under month a subset.
C13_Original ==
    /\ DatedWithinMountWindow
    /\ QuarterEqualsYear

\* C13 amended: every record is dated no earlier than addMonths(mount, -3);
\* the filtered set under month is always a subset of the one under
\* quarter; in every reachable state whose render has a quarter cutoff
\* addMonths(now, -9) no later than addMonths(mount, -3), the filtered set
\* under quarter equals the one under year (both are all records of the
\* current stage); and a switch between quarter and year between two such
\* renders changes neither chart nor table.
C13_QuarterEqualsYearWhileCovered ==
    /\ [](DatedWithinMountWindow)
    /\ [](MonthWithinQuarter)
    /\ [](QuarterCoversDataset(now) => QuarterEqualsYear)
    /\ [][(QuarterYearSwitch /\ QuarterCoversDataset(now) /\ QuarterCoversDataset(now')) =>
             (chartData' = chartData /\ tableRows' = tableRows)]_vars

\* Quarter was switched to year with a selection, while the month window
\* had already lost a record of the current stage.
C13_Witness ==
    /\ lastEvent.op = "setGranularity"
    /\ granularity = "year"
    /\ lastEvent.hadSelection
    /\ Before(mountTime, now)
    /\ QuarterCoversDataset(now)
    /\ Len(FilteredUnder("month")) < Len(FilteredUnder("quarter"))
    /\ Len(tableRows) >= 1

====
